---------------------------- MODULE Spec2Model ----------------------------
(***************************************************************************)
(* Model of app.py: the entanglement-rate model of QuantumNetwork          *)
(* (link_entanglement_rate, end_to_end_rate) and the exhaustive path       *)
(* search (enumerate_paths, find_optimal_path).                            *)
(*                                                                         *)
(* Fixed-point units.  Times are integers in units of 0.1 microsecond,     *)
(* distances in metres, probabilities in units of 1/PScale, rates in       *)
(* units of 1/RateScale per time unit (0.01 entanglements per second).     *)
(* The distances drawn are multiples of 2*c_f metres, so that every        *)
(* d / (2*c_f) of the code is an exact integer here.                       *)
(***************************************************************************)
EXTENDS Integers, Sequences, FiniteSets, TLC

(* ---------------- bounds of the model ---------------- *)

\* node identifiers are 1..NumNodes
NumNodes == 3
\* link_entanglement_rate is called on the distances 0, DistStep, ..., MaxDistSteps*DistStep
MaxDistSteps == 30
\* depth at which the interpreter stops a recursion with RecursionError
RecursionLimit == 6
\* number of terms of the series that stands for np.exp
ExpTerms == 12

(* ---------------- QuantumNetwork.__init__ ---------------- *)

p_ht == 53
v_h == 80
v_t == 80
v_o == 39
v_a == 39
L0 == 22000
c_f == 20
tau_p == 59
tau_h == 200
tau_t == 100
tau_d == 1000
tau_o == 100
tau_a == 100
T_ch_default == 100000

\* scale of the efficiencies p_ht, v_h, v_t, v_o, v_a (percent)
Percent == 10 * 10
\* scale of probabilities and of the fixed-point exponential
PScale == Percent * Percent * 10
ExpScale == 10 * Percent
\* 1.0 in rate units: rate = RateScale / time
RateScale == ExpScale * ExpScale * ExpScale

VARIABLES
    nodes,       \* the node list handed to find_optimal_path / enumerate_paths
    distances,   \* the distance graph: node -> (neighbour -> distance)
    T_ch,        \* self.T_ch of the QuantumNetwork
    call,        \* the last direct call of a function and what it produced
    pc,          \* position of find_optimal_path
    all_paths,   \* find_optimal_path: the candidate list
    idx,         \* find_optimal_path: index of the next candidate of the scan
    best_path,   \* find_optimal_path: best path so far, <<>> for None
    best_rate,   \* find_optimal_path: best rate so far
    outcome      \* how find_optimal_path ended

vars == <<nodes, distances, T_ch, call, pc, all_paths, idx, best_path, best_rate, outcome>>

(* ---------------- values ---------------- *)

Universe == 1 .. NumNodes

\* Python None, for a path
None == <<>>

\* a function that returned v / a function that raised exception e
Returned(v) == [kind |-> "return", value |-> v]
Raised(e) == [kind |-> e]

\* Python max
Max(a, b) == IF a >= b THEN a ELSE b

(* ---------------- link_entanglement_rate ---------------- *)

\* np.exp(-d_ij / L0), scaled by ExpScale: the alternating series
\* sum_n (-x)^n / n!  with x = d_ij / L0, cut after ExpTerms terms
RECURSIVE ExpSeries(_, _, _)
ExpSeries(x, n, term) ==
    IF n > ExpTerms \/ term = 0 THEN 0
    ELSE (IF n % 2 = 0 THEN term ELSE 0 - term)
         + ExpSeries(x, n + 1, (term * x) \div ((n + 1) * ExpScale))

ExpNeg(d_ij) == ExpSeries((d_ij * ExpScale) \div L0, 0, ExpScale)

\* line 31: 0.5 * v_o * (p_ht * v_h * v_t)**2 * exp(-d_ij / L0), scaled by PScale
p_ij(d_ij) ==
    LET q == (p_ht * v_h * v_t) \div Percent          \* scale 10^4
        q2 == (q * q) \div (Percent * Percent)          \* scale 10^4
        base == (v_o * q2 * 10) \div (2 * Percent)      \* scale PScale
    IN (base * ExpNeg(d_ij)) \div ExpScale

\* the spec's reading: a full d/c_f on each leg
tau_ij_full_legs(d_ij) == tau_t + (d_ij \div c_f) + tau_o + (d_ij \div c_f)

\* line 34
tau_ij(d_ij) == tau_t + (d_ij \div (2 * c_f)) + tau_o + (d_ij \div (2 * c_f))

\* line 35
T_ij_s(d_ij) == tau_p + Max(tau_h, tau_ij(d_ij))

\* line 38
T_ij_f(d_ij) == tau_p + Max(Max(tau_h, tau_ij(d_ij)), tau_d)

\* line 41
T_ij(d_ij) ==
    ((PScale - p_ij(d_ij)) * T_ij_f(d_ij) + p_ij(d_ij) * T_ij_s(d_ij)) \div p_ij(d_ij)

\* lines 44-47, with self.T_ch = Tch
link_entanglement_rate(Tch, d_ij) ==
    IF Tch < tau_ij(d_ij) THEN 0 ELSE RateScale \div T_ij(d_ij)

(* ---------------- end_to_end_rate ---------------- *)

\* line 60: path[:k+1]
left_path(path) ==
    LET k == Len(path) \div 2
    IN SubSeq(path, 1, IF k + 1 <= Len(path) THEN k + 1 ELSE Len(path))

\* line 61: path[k:]
right_path(path) ==
    LET k == Len(path) \div 2
    IN SubSeq(path, k + 1, Len(path))

\* lines 71-84: the two halves' rates combined by a swap, with self.T_ch = Tch
swap_rate(Tch, rate_left, rate_right) ==
    LET T_left == RateScale \div rate_left
        T_right == RateScale \div rate_right
        T_swap == ((Max(T_left, T_right) + tau_a) * Percent) \div v_a
        tau_total == Max(T_left, T_right) + tau_a
    IN IF Tch < tau_total THEN 0 ELSE RateScale \div T_swap

\* lines 52-84, with self.T_ch = Tch; depth is the number of nested invocations,
\* and the interpreter raises RecursionError past RecursionLimit of them
RECURSIVE end_to_end_rate(_, _, _, _)
end_to_end_rate(Tch, path, dist, depth) ==
    IF depth > RecursionLimit THEN Raised("RecursionError")
    ELSE IF Len(path) = 1
    THEN \* line 55 reads path[1], which a one-element list does not have
         Raised("IndexError")
    ELSE LET rate_left == end_to_end_rate(Tch, left_path(path), dist, depth + 1)
         IN IF rate_left.kind # "return" THEN rate_left
            ELSE LET rate_right == end_to_end_rate(Tch, right_path(path), dist, depth + 1)
                 IN IF rate_right.kind # "return" THEN rate_right
                    ELSE IF rate_left.value = 0 \/ rate_right.value = 0
                    THEN Returned(0)
                    ELSE Returned(swap_rate(Tch, rate_left.value, rate_right.value))

(* ---------------- enumerate_paths ---------------- *)

\* a search that returned paths, its visited set being visited at the return
Found(paths, visited) == [kind |-> "return", value |-> paths, visited |-> visited]

\* the bug of testing only the visited set
has_link_always(dist, src, neighbor) == TRUE

\* line 121: distances[src].get(neighbor, None) is not None
has_link(dist, src, neighbor) == neighbor \in DOMAIN dist[src]

\* the bug of handing the caller's own set to the recursive call
visited_shared(visited, callee_visited) == callee_visited

\* line 122: the recursive call gets visited.copy(), so the set the loop goes on
\* with is the caller's own, whatever the callee marked in its copy
visited_after_branch(visited, callee_visited) == visited

\* line 123: [src] + subpath for every subpath
prepend_all(src, subpaths) == [j \in 1 .. Len(subpaths) |-> <<src>> \o subpaths[j]]

RECURSIVE enumerate_paths(_, _, _, _, _)
RECURSIVE neighbor_loop(_, _, _, _, _, _, _)

\* lines 120-125: the loop from the i-th element of nodes on
neighbor_loop(i, src, dst, nds, dist, visited, paths) ==
    IF i > Len(nds) THEN Found(paths, visited)
    ELSE LET neighbor == nds[i]
         IN IF neighbor \in visited
            THEN neighbor_loop(i + 1, src, dst, nds, dist, visited, paths)
            ELSE IF src \notin DOMAIN dist
            THEN \* distances[src] of a plain dict without the key
                 Raised("KeyError")
            ELSE IF ~ has_link(dist, src, neighbor)
            THEN neighbor_loop(i + 1, src, dst, nds, dist, visited, paths)
            ELSE LET sub == enumerate_paths(neighbor, dst, nds, dist, visited)
                 IN IF sub.kind # "return" THEN sub
                    ELSE neighbor_loop(i + 1, src, dst, nds, dist,
                                       visited_after_branch(visited, sub.visited),
                                       paths \o prepend_all(src, sub.value))

\* lines 111-125; visited0 is {} for visited=None
enumerate_paths(src, dst, nds, dist, visited0) ==
    LET visited == visited0 \cup {src}
    IN IF src = dst THEN Found(<< <<dst>> >>, visited)
       ELSE neighbor_loop(1, src, dst, nds, dist, visited, <<>>)

(* ---------------- find_optimal_path ---------------- *)

\* itertools.combinations(nodes, 2): the pairs (nodes[i], nodes[j]), i < j,
\* in lexicographic order of (i, j)
RECURSIVE combinations2(_, _, _)
combinations2(nds, i, j) ==
    IF i >= Len(nds) THEN <<>>
    ELSE IF j > Len(nds) THEN combinations2(nds, i + 1, i + 2)
    ELSE << <<nds[i], nds[j]>> >> \o combinations2(nds, i, j + 1)

\* lines 91-96: all_paths extended pair by pair, from the k-th pair on
RECURSIVE gather_paths(_, _, _, _, _)
gather_paths(pairs, k, nds, dist, acc) ==
    IF k > Len(pairs) THEN Returned(acc)
    ELSE LET paths == enumerate_paths(pairs[k][1], pairs[k][2], nds, dist, {})
         IN IF paths.kind # "return" THEN Raised(paths.kind)
            ELSE gather_paths(pairs, k + 1, nds, dist, acc \o paths.value)

(* ---------------- inputs ---------------- *)

\* 1000 m, a multiple of 2*c_f
DistStep == 50 * c_f

LinkDistances == { k * DistStep : k \in 0 .. MaxDistSteps }

\* coherence times: 0, the cutoff of a 0 m and of a 5 km link, the default
TchValues == { 0, tau_ij(0), tau_ij(5 * DistStep), T_ch_default }

\* the fibre between u and v: 5 km or 10 km, as in the example topology
\* (v1-v2, v2-v3, v3-vj 5 km, v2-vj 10 km, with vj the fourth node)
Length(u, v) == IF (u + v) % 2 = 1 THEN 5 * DistStep ELSE 10 * DistStep

\* the distance graphs: any set of nodes has an entry, and the entry of a node
\* holds any set of other nodes; each direction is entered on its own
Graphs ==
    UNION { { [u \in K |-> [v \in nb[u] |-> Length(u, v)]] :
                nb \in { f \in [K -> SUBSET Universe] : \A u \in K : u \notin f[u] } } :
            K \in SUBSET Universe }

\* the node lists: <<1, ..., n>>
NodeLists == { [i \in 1 .. n |-> i] : n \in 1 .. NumNodes }

\* the sequences of distinct nodes
DistinctSeqs ==
    { p \in UNION { [1 .. n -> Universe] : n \in 1 .. NumNodes } :
        \A i, j \in 1 .. Len(p) : i # j => p[i] # p[j] }

\* every consecutive pair of p has an entry in dist
IsLinked(p, dist) ==
    \A i \in 1 .. Len(p) - 1 : p[i] \in DOMAIN dist /\ p[i + 1] \in DOMAIN dist[p[i]]

NoCall == [fn |-> "none"]

Idle ==
    /\ call = NoCall
    /\ pc = "idle"
    /\ all_paths = <<>>
    /\ idx = 0
    /\ best_path = None
    /\ best_rate = 0
    /\ outcome = "none"

(* ---------------- direct calls of link_entanglement_rate ---------------- *)

InitLink ==
    /\ nodes = <<>>
    /\ distances = <<>>
    /\ T_ch \in TchValues
    /\ Idle

LinkCall ==
    /\ \E d \in LinkDistances :
         call' = [fn |-> "link_entanglement_rate", d_ij |-> d,
                  tau_ij |-> tau_ij(d), T_ij_s |-> T_ij_s(d), T_ij_f |-> T_ij_f(d),
                  T_ij |-> T_ij(d), result |-> link_entanglement_rate(T_ch, d)]
    /\ UNCHANGED <<nodes, distances, T_ch, pc, all_paths, idx, best_path, best_rate, outcome>>

SpecLink == InitLink /\ [][LinkCall]_vars

(* ---------------- direct calls of end_to_end_rate ---------------- *)

InitRate ==
    /\ nodes = [i \in Universe |-> i]
    /\ distances \in Graphs
    /\ T_ch \in TchValues
    /\ Idle

\* qnet.end_to_end_rate(path, distances) on a path of the graph
RateCall ==
    /\ \E path \in DistinctSeqs :
         /\ IsLinked(path, distances)
         /\ call' = [fn |-> "end_to_end_rate", path |-> path,
                     result |-> end_to_end_rate(T_ch, path, distances, 1)]
    /\ UNCHANGED <<nodes, distances, T_ch, pc, all_paths, idx, best_path, best_rate, outcome>>

SpecRate == InitRate /\ [][RateCall]_vars

(* ---------------- direct calls of enumerate_paths ---------------- *)

InitEnum ==
    /\ nodes \in NodeLists
    /\ distances \in Graphs
    /\ T_ch = T_ch_default
    /\ Idle

\* enumerate_paths(src, dst, nodes, distances)
EnumCall ==
    /\ \E src, dst \in Universe :
         call' = [fn |-> "enumerate_paths", src |-> src, dst |-> dst,
                  result |-> enumerate_paths(src, dst, nodes, distances, {})]
    /\ UNCHANGED <<nodes, distances, T_ch, pc, all_paths, idx, best_path, best_rate, outcome>>

SpecEnum == InitEnum /\ [][EnumCall]_vars

(* ---------------- find_optimal_path(qnet, nodes, distances) ---------------- *)

Init ==
    /\ nodes \in NodeLists
    /\ distances \in Graphs
    /\ T_ch \in TchValues
    /\ Idle

\* lines 91-100: the candidates of every pair, then best = (None, 0.0)
Enumerate ==
    /\ pc = "idle"
    /\ LET got == gather_paths(combinations2(nodes, 1, 2), 1, nodes, distances, <<>>)
       IN IF got.kind = "return"
          THEN /\ all_paths' = got.value
               /\ idx' = 1
               /\ pc' = "scan"
               /\ outcome' = outcome
          ELSE /\ all_paths' = all_paths
               /\ idx' = idx
               /\ pc' = "done"
               /\ outcome' = got.kind
    /\ best_path' = None
    /\ best_rate' = 0
    /\ UNCHANGED <<nodes, distances, T_ch, call>>

\* lines 102-106: one candidate scored and compared with the best
ScanStep ==
    /\ pc = "scan"
    /\ idx <= Len(all_paths)
    /\ LET path == all_paths[idx]
           rate == end_to_end_rate(T_ch, path, distances, 1)
       IN IF rate.kind # "return"
          THEN /\ pc' = "done"
               /\ outcome' = rate.kind
               /\ UNCHANGED <<idx, best_path, best_rate>>
          ELSE /\ IF rate.value > best_rate
                  THEN best_rate' = rate.value /\ best_path' = path
                  ELSE UNCHANGED <<best_path, best_rate>>
               /\ idx' = idx + 1
               /\ UNCHANGED <<pc, outcome>>
    /\ UNCHANGED <<nodes, distances, T_ch, call, all_paths>>

\* line 108
Return ==
    /\ pc = "scan"
    /\ idx > Len(all_paths)
    /\ pc' = "done"
    /\ outcome' = "return"
    /\ UNCHANGED <<nodes, distances, T_ch, call, all_paths, idx, best_path, best_rate>>

Next == Enumerate \/ ScanStep \/ Return

Spec == Init /\ [][Next]_vars

(* ======================= the claims ======================= *)

\* the last call was f
Called(f) == call.fn = f

\* what qnet.end_to_end_rate(p, distances) produces in the current state
RateOf(p) == end_to_end_rate(T_ch, p, distances, 1)

\* the simple paths of the current graph from src to dst
SimplePaths(src, dst) ==
    { p \in DistinctSeqs : p[1] = src /\ p[Len(p)] = dst /\ IsLinked(p, distances) }

\* the elements of the list nodes
NodeSet == { nodes[i] : i \in 1 .. Len(nodes) }

\* every edge of the graph joins two elements of nodes
EdgesWithinNodes ==
    \A u \in DOMAIN distances :
        DOMAIN distances[u] # {} => u \in NodeSet /\ DOMAIN distances[u] \subseteq NodeSet

\* every edge of the graph is entered in both directions
StoredBothWays ==
    \A u \in DOMAIN distances : \A v \in DOMAIN distances[u] :
        v \in DOMAIN distances /\ u \in DOMAIN distances[v]

\* C1: end_to_end_rate of a two-node path [a, b] with an entry distances[a][b]
\* returns a value, and the value is link_entanglement_rate(distances[a][b]).
C1_TwoNodePathIsLinkRate ==
    (Called("end_to_end_rate") /\ Len(call.path) = 2) =>
        /\ call.result.kind = "return"
        /\ call.result.value =
               link_entanglement_rate(T_ch, distances[call.path[1]][call.path[2]])

\* C2: end_to_end_rate terminates on every path of two or more nodes whose
\* consecutive pairs are edges: it does not run into the recursion limit, and
\* both sub-paths it recurses on are strictly shorter than its own path.
C2_RecursionShrinks ==
    (Called("end_to_end_rate") /\ Len(call.path) >= 2) =>
        /\ call.result.kind # "RecursionError"
        /\ Len(left_path(call.path)) < Len(call.path)
        /\ Len(right_path(call.path)) < Len(call.path)

\* C3: find_optimal_path returns, and the rate it returns is the maximum of
\* end_to_end_rate over the simple paths between distinct nodes (0 if none is
\* positive); a positive returned rate is the rate of the returned path, which
\* is one of those simple paths.  Stated for the graphs in which every node of
\* nodes has an entry and every edge is entered in both directions.
C3_ReturnsMaximum ==
    (pc = "done" /\ NodeSet \subseteq DOMAIN distances /\ StoredBothWays) =>
        /\ outcome = "return"
        /\ LET candidates ==
                   { p \in DistinctSeqs :
                       /\ Len(p) >= 2
                       /\ p[1] \in NodeSet /\ p[Len(p)] \in NodeSet
                       /\ IsLinked(p, distances) }
           IN /\ \A p \in candidates :
                    RateOf(p).kind = "return" /\ RateOf(p).value <= best_rate
              /\ best_rate > 0 =>
                    best_path \in candidates /\ RateOf(best_path).value = best_rate
              /\ best_rate = 0 => best_path = None

\* C4: every path enumerate_paths(src, dst, nodes, distances) returns starts at
\* src, ends at dst, holds no node twice, and every consecutive pair (u, v) of
\* it has an entry distances[u][v].
C4_PathsAreSimpleLinked ==
    (Called("enumerate_paths") /\ call.result.kind = "return") =>
        \A i \in 1 .. Len(call.result.value) :
            LET p == call.result.value[i]
            IN /\ Len(p) >= 1
               /\ p[1] = call.src
               /\ p[Len(p)] = call.dst
               /\ \A a, b \in 1 .. Len(p) : a # b => p[a] # p[b]
               /\ IsLinked(p, distances)

\* C4 witness: a search returned several paths, a two-hop path among them
C4_Witness ==
    /\ Called("enumerate_paths")
    /\ call.result.kind = "return"
    /\ Len(call.result.value) >= 2
    /\ \E i \in 1 .. Len(call.result.value) : Len(call.result.value[i]) = 3

C6_NoEdgesReturnsNone ==
    (/\ pc = "done"
     /\ Len(nodes) >= 2
     /\ \A u \in DOMAIN distances : DOMAIN distances[u] = {}) =>
        /\ outcome = "return"
        /\ best_path = None
        /\ best_rate = 0

\* C7: the cutoff is exclusive at both levels.  link_entanglement_rate is 0
\* exactly when T_ch < tau_ij; end_to_end_rate of a path of more than two nodes
\* whose halves both have a positive rate is 0 exactly when
\* T_ch < max(T_left, T_right) + tau_a; and with T_ch = 0 every path of more
\* than two nodes has rate 0.
C7_CutoffExclusive ==
    /\ \A d \in LinkDistances :
           link_entanglement_rate(T_ch, d) = 0 <=> T_ch < tau_ij(d)
    /\ (Called("end_to_end_rate") /\ Len(call.path) > 2) =>
           /\ call.result.kind = "return"
           /\ T_ch = 0 => call.result.value = 0
           /\ LET rate_left == RateOf(left_path(call.path))
                  rate_right == RateOf(right_path(call.path))
              IN /\ rate_left.kind = "return"
                 /\ rate_right.kind = "return"
                 /\ (rate_left.value > 0 /\ rate_right.value > 0) =>
                        (call.result.value = 0 <=>
                            T_ch < Max(RateScale \div rate_left.value,
                                       RateScale \div rate_right.value) + tau_a)

\* C8 as amended: the signal time link_entanglement_rate uses, in the success
\* and failure durations and in the cutoff, is tau_t + tau_o plus one one-way
\* propagation time distance/c_f (two legs of distance/(2*c_f) each).
C8_TauOneWay ==
    Called("link_entanglement_rate") =>
        LET tau == tau_t + tau_o + (call.d_ij \div c_f)
        IN /\ (call.tau_ij - tau_t - tau_o) * c_f = call.d_ij
           /\ call.T_ij_s = tau_p + Max(tau_h, tau)
           /\ call.T_ij_f = tau_p + Max(Max(tau_h, tau), tau_d)
           /\ call.result = 0 <=> T_ch < tau

\* C8 witness: a link long enough for the signal time to exceed the cooling
\* time, within the coherence time
C8_Witness ==
    /\ Called("link_entanglement_rate")
    /\ call.d_ij > 0
    /\ call.tau_ij > tau_d
    /\ call.result > 0

\* C8 as stated: the signal time is tau_t + distance/c_f + tau_o + distance/c_f,
\* the overheads plus twice the one-way propagation time.
C8_TauTwoWay ==
    Called("link_entanglement_rate") =>
        LET tau == tau_t + (call.d_ij \div c_f) + tau_o + (call.d_ij \div c_f)
        IN /\ call.tau_ij = tau
           /\ call.T_ij_s = tau_p + Max(tau_h, tau)
           /\ call.T_ij_f = tau_p + Max(Max(tau_h, tau), tau_d)
           /\ call.result = 0 <=> T_ch < tau

\* C9: end_to_end_rate of a path of three or more nodes with a link of rate 0
\* on it returns 0.0, and raises nothing.
C9_ZeroPropagates ==
    (/\ Called("end_to_end_rate")
     /\ Len(call.path) >= 3
     /\ \E i \in 1 .. Len(call.path) - 1 :
            link_entanglement_rate(T_ch, distances[call.path[i]][call.path[i + 1]]) = 0) =>
        /\ call.result.kind = "return"
        /\ call.result.value = 0

\* C10: the scan of find_optimal_path ends by returning the first candidate of
\* maximal rate when that rate is positive, and (None, 0.0) otherwise;
\* best_path is None exactly when best_rate is 0.0.
C10_FirstBestReturned ==
    (pc = "done" /\ all_paths # <<>>) =>
        /\ outcome = "return"
        /\ best_path = None <=> best_rate = 0
        /\ \A i \in 1 .. Len(all_paths) : RateOf(all_paths[i]).value <= best_rate
        /\ best_rate > 0 =>
               \E i \in 1 .. Len(all_paths) :
                   /\ all_paths[i] = best_path
                   /\ RateOf(all_paths[i]).value = best_rate
                   /\ \A j \in 1 .. i - 1 : RateOf(all_paths[j]).value < best_rate

=============================================================================
